---- MODULE Spec2Model ----
(***************************************************************************)
(* Model of the Platform resource of impact_profile_api:                   *)
(*   src/src/services/platform_service.py  (PlatformService)               *)
(*   src/src/routes/platform_routes.py     (route layer)                   *)
(* together with the two collaborators the service calls, the document     *)
(* store gateway (MongoIO) and the infinite-scroll query engine            *)
(* (execute_infinite_scroll_query), which live in the api_utils package    *)
(* and are modelled from their documented contract.                        *)
(***************************************************************************)
EXTENDS Integers, Sequences, FiniteSets, TLC

VARIABLES
    mongo,   \* collection name -> (ObjectId -> stored document)
    last,    \* the most recent service call: its arguments, store calls and outcome
    scroll,  \* an infinite-scroll session of one client following next_cursor
    journal, \* history: ObjectId -> the writes applied to that document, last one winning
    policy   \* the operations the policy plugged into _check_permission denies

vars == <<mongo, last, scroll, journal, policy>>

(***************************************************************************)
(* Bounds of the model                                                     *)
(***************************************************************************)
\* most documents a collection holds in the create/read/update specification
MaxDocs == 2
\* most documents of a collection drawn for the list/scroll specification
MaxScrollDocs == 3

(***************************************************************************)
(* Values                                                                  *)
(***************************************************************************)
\* Python's None; also the empty string, which `if name:` treats alike
None == <<>>

EmptyMap == [k \in {} |-> None]

\* dict helpers: `del d[k]`, `d[k] = v`, `k in d`
Del(d, k) == [x \in (DOMAIN d) \ {k} |-> d[x]]
Put(d, k, v) == (k :> v) @@ d
Has(d, k) == k \in DOMAIN d

\* names are strings, kept as tuples of characters so that substring
\* matching and lexicographic order are computed, not assumed
Names == {<<"a", "b">>, <<"b">>}
Statuses == {"active"}

\* audit breadcrumbs built per request by create_flask_breadcrumb
AtTimes == {1, 2}
Breadcrumbs == [at_time : AtTimes, by_user : {"test_user"}]
\* a breadcrumb-shaped value supplied by a client inside a payload
ClientCrumb == [at_time |-> 0, by_user |-> "client"]
\* an _id supplied by a client inside a payload (a JSON value, not an ObjectId)
ClientId == 99

Tokens == {[user_id |-> "test_user", roles |-> <<"admin">>]}

\* ObjectIds are issued in increasing order; str(ObjectId) and ObjectId(str)
ObjectIds == 1..(MaxDocs + MaxScrollDocs + 1)
ToStr(oid) == <<"oid", oid>>
InvalidIdStr == <<"invalid", 0>>
IsValidObjectId(s) == Len(s) = 2 /\ s[1] = "oid" /\ s[2] \in Nat /\ s[2] >= 1
ObjectId(s) == s[2]

\* configuration (Config singleton)
PLATFORM_COLLECTION_NAME == "Platform"
USER_COLLECTION_NAME == "User"
CollectionNames == {PLATFORM_COLLECTION_NAME, USER_COLLECTION_NAME}

(***************************************************************************)
(* Exceptions: api_utils.flask_utils.exceptions                            *)
(***************************************************************************)
HTTPBadRequest(text) == [kind |-> "HTTPBadRequest", text |-> text, arg |-> None, cause |-> None]
HTTPForbidden(text, field) == [kind |-> "HTTPForbidden", text |-> text, arg |-> <<field>>, cause |-> None]
HTTPNotFound(text, id) == [kind |-> "HTTPNotFound", text |-> text, arg |-> id, cause |-> None]
HTTPInternalServerError(text, id, cause) ==
    [kind |-> "HTTPInternalServerError", text |-> text, arg |-> id, cause |-> cause]
\* what the store raises when it faults
DatabaseError == [kind |-> "Exception", text |-> "Database error", arg |-> None, cause |-> None]
NoError == [kind |-> "none", text |-> "", arg |-> None, cause |-> None]

(***************************************************************************)
(* Document store gateway: MongoIO.create_document / get_document /        *)
(* update_document / get_collection.  A call either faults (raises) or     *)
(* acts atomically on one document.                                        *)
(***************************************************************************)
\* the next identifier the store issues: identifiers are issued in increasing order
NewObjectId(docs) == Cardinality(DOMAIN docs) + 1

\* insert one document; an _id carried by the data is kept, as the store does
create_document(docs, data, fault) ==
    LET oid == IF Has(data, "_id") THEN data["_id"] ELSE NewObjectId(docs)
    IN  IF fault \/ oid \in DOMAIN docs
        THEN [raised |-> TRUE, id |-> None, docs |-> docs]
        ELSE [raised |-> FALSE, id |-> ToStr(oid),
              docs |-> (oid :> Put(data, "_id", oid)) @@ docs]

\* fetch one document by id; absent is reported, not raised
get_document(docs, document_id, fault) ==
    IF fault
    THEN [raised |-> TRUE, found |-> FALSE, doc |-> EmptyMap]
    ELSE IF ObjectId(document_id) \in DOMAIN docs
         THEN [raised |-> FALSE, found |-> TRUE, doc |-> docs[ObjectId(document_id)]]
         ELSE [raised |-> FALSE, found |-> FALSE, doc |-> EmptyMap]

\* $set the given fields on one document and return it as updated; no upsert
update_document(docs, document_id, set_data, fault) ==
    LET oid == ObjectId(document_id)
    IN  IF fault
        THEN [raised |-> TRUE, found |-> FALSE, doc |-> EmptyMap, docs |-> docs]
        ELSE IF oid \in DOMAIN docs
             THEN LET updated == set_data @@ docs[oid]
                  IN  [raised |-> FALSE, found |-> TRUE, doc |-> updated,
                       docs |-> [docs EXCEPT ![oid] = updated]]
             ELSE [raised |-> FALSE, found |-> FALSE, doc |-> EmptyMap, docs |-> docs]

(***************************************************************************)
(* PlatformService: create, read, update                                   *)
(***************************************************************************)
\* the authorization seam: _check_permission returns, or raises HTTPForbidden when
\* the policy plugged into it denies the operation.  The placeholder the service
\* ships with denies nothing (its body is `pass`): policy = {}
check_permission(token, operation) == operation \notin policy

restricted_fields == <<"_id", "created", "saved">>

\* the first restricted field the payload carries, in the order they are tested
FirstRestricted(data) ==
    LET hits == {i \in 1..Len(restricted_fields) : Has(data, restricted_fields[i])}
    IN  restricted_fields[CHOOSE i \in hits : \A j \in hits : i <= j]

ValidateOnlyId(data) ==
    IF Has(data, "_id") THEN HTTPForbidden("Cannot update field", "_id") ELSE NoError

validate_update_data(data) ==
    IF \E i \in 1..Len(restricted_fields) : Has(data, restricted_fields[i])
    THEN HTTPForbidden("Cannot update field", FirstRestricted(data))
    ELSE NoError

\* the document create hands to the store: _id removed, created and saved stamped
CreateDataNoDel(data, breadcrumb) ==
    Put(Put(data, "created", breadcrumb), "saved", breadcrumb)

create_data(data, breadcrumb) ==
    Put(Put(Del(data, "_id"), "created", breadcrumb), "saved", breadcrumb)

\* the $set field-set of an update: the payload without restricted fields, plus saved
UpdateSetDataNoSaved(data, breadcrumb) ==
    [k \in (DOMAIN data) \ {"_id", "created", "saved"} |-> data[k]]

UpdateSetDataStampsCreated(data, breadcrumb) ==
    Put(Put([k \in (DOMAIN data) \ {"_id", "created", "saved"} |-> data[k]],
            "saved", breadcrumb), "created", breadcrumb)

update_set_data(data, breadcrumb) ==
    Put([k \in (DOMAIN data) \ {"_id", "created", "saved"} |-> data[k]],
        "saved", breadcrumb)

\* (create_platform appends str(e) of the store's exception to its message: the
\* cause field holds that appended text, None where the message is fixed)
\* every service operation answers with: the error raised (or NoError), the value
\* returned, the collection as the store holds it afterwards, the store calls made,
\* and the caller's payload dictionary as the call leaves it
Answer(error, value, docs, calls, data) ==
    [error |-> error, value |-> value, docs |-> docs, calls |-> calls, data |-> data]

CreatePlatformRetries(docs, data, token, breadcrumb, fault) ==
    IF ~check_permission(token, "create")
    THEN Answer(HTTPForbidden("permission", "create"), None, docs, <<>>, data)
    ELSE LET doc == create_data(data, breadcrumb)
             r == create_document(docs, doc, fault)
             again == create_document(docs, doc, FALSE)
         IN  IF r.raised
             THEN Answer(NoError, again.id, again.docs,
                         <<"create_document", "create_document">>, doc)
             ELSE Answer(NoError, r.id, r.docs, <<"create_document">>, doc)

create_platform(docs, data, token, breadcrumb, fault) ==
    IF ~check_permission(token, "create")
    THEN Answer(HTTPForbidden("permission", "create"), None, docs, <<>>, data)
    ELSE LET doc == create_data(data, breadcrumb)
             r == create_document(docs, doc, fault)
         IN  IF r.raised
             THEN Answer(HTTPInternalServerError("Failed to create platform", None,
                                                 <<DatabaseError.text>>),
                         None, docs, <<"create_document">>, doc)
             ELSE Answer(NoError, r.id, r.docs, <<"create_document">>, doc)

GetPlatformStampsSaved(docs, platform_id, token, breadcrumb, fault) ==
    IF ~check_permission(token, "read")
    THEN Answer(HTTPInternalServerError("Failed to retrieve platform", platform_id, None),
                None, docs, <<>>, EmptyMap)
    ELSE LET r == get_document(docs, platform_id, fault)
         IN  IF r.raised
             THEN Answer(HTTPInternalServerError("Failed to retrieve platform", platform_id, None),
                         None, docs, <<"get_document">>, EmptyMap)
             ELSE IF ~r.found
                  THEN Answer(HTTPNotFound("Platform not found", platform_id),
                              None, docs, <<"get_document">>, EmptyMap)
                  ELSE Answer(NoError, r.doc,
                              [docs EXCEPT ![ObjectId(platform_id)] =
                                               ("saved" :> breadcrumb) @@ @],
                              <<"get_document">>, EmptyMap)

GetPlatformRawException(docs, platform_id, token, breadcrumb, fault) ==
    IF ~check_permission(token, "read")
    THEN Answer(HTTPInternalServerError("Failed to retrieve platform", platform_id, None),
                None, docs, <<>>, EmptyMap)
    ELSE LET r == get_document(docs, platform_id, fault)
         IN  IF r.raised
             THEN Answer(DatabaseError, None, docs, <<"get_document">>, EmptyMap)
             ELSE IF ~r.found
                  THEN Answer(HTTPNotFound("Platform not found", platform_id),
                              None, docs, <<"get_document">>, EmptyMap)
                  ELSE Answer(NoError, r.doc, docs, <<"get_document">>, EmptyMap)

GetPlatformNoCheck(docs, platform_id, token, breadcrumb, fault) ==
    LET r == get_document(docs, platform_id, fault)
    IN  IF r.raised
        THEN Answer(HTTPInternalServerError("Failed to retrieve platform", platform_id, None),
                    None, docs, <<"get_document">>, EmptyMap)
        ELSE Answer(NoError, r.doc, docs, <<"get_document">>, EmptyMap)

get_platform(docs, platform_id, token, breadcrumb, fault) ==
    IF ~check_permission(token, "read")
    THEN Answer(HTTPInternalServerError("Failed to retrieve platform", platform_id, None),
                None, docs, <<>>, EmptyMap)
    ELSE LET r == get_document(docs, platform_id, fault)
         IN  IF r.raised
             THEN Answer(HTTPInternalServerError("Failed to retrieve platform", platform_id, None),
                         None, docs, <<"get_document">>, EmptyMap)
             ELSE IF ~r.found
                  THEN Answer(HTTPNotFound("Platform not found", platform_id),
                              None, docs, <<"get_document">>, EmptyMap)
                  ELSE Answer(NoError, r.doc, docs, <<"get_document">>, EmptyMap)

UpdatePlatformMutatesPayload(docs, platform_id, data, token, breadcrumb, fault) ==
    IF ~check_permission(token, "update")
    THEN Answer(HTTPForbidden("permission", "update"), None, docs, <<>>, data)
    ELSE IF validate_update_data(data) # NoError
    THEN Answer(validate_update_data(data), None, docs, <<>>, data)
    ELSE LET set_data == update_set_data(data, breadcrumb)
             r == update_document(docs, platform_id, set_data, fault)
         IN  IF r.raised
             THEN Answer(HTTPInternalServerError("Failed to update platform", platform_id, None),
                         None, docs, <<"update_document">>, set_data)
             ELSE IF ~r.found
                  THEN Answer(HTTPNotFound("Platform not found", platform_id),
                              None, docs, <<"update_document">>, set_data)
                  ELSE Answer(NoError, r.doc, r.docs, <<"update_document">>, set_data)

UpdatePlatformLostWrite(docs, platform_id, data, token, breadcrumb, fault) ==
    IF ~check_permission(token, "update")
    THEN Answer(HTTPForbidden("permission", "update"), None, docs, <<>>, data)
    ELSE IF validate_update_data(data) # NoError
    THEN Answer(validate_update_data(data), None, docs, <<>>, data)
    ELSE LET set_data == update_set_data(data, breadcrumb)
             r == update_document(docs, platform_id, set_data, fault)
         IN  IF r.raised
             THEN Answer(HTTPInternalServerError("Failed to update platform", platform_id, None),
                         None, docs, <<"update_document">>, data)
             ELSE IF ~r.found
                  THEN Answer(HTTPNotFound("Platform not found", platform_id),
                              None, docs, <<"update_document">>, data)
                  ELSE Answer(NoError, r.doc, docs, <<"update_document">>, data)

UpdatePlatformUnguarded(docs, platform_id, data, token, breadcrumb, fault) ==
    LET set_data == Put(data, "saved", breadcrumb)
        r == update_document(docs, platform_id, set_data, fault)
    IN  IF r.raised
        THEN Answer(HTTPInternalServerError("Failed to update platform", platform_id, None),
                    None, docs, <<"update_document">>, data)
        ELSE IF ~r.found
             THEN Answer(HTTPNotFound("Platform not found", platform_id),
                         None, docs, <<"update_document">>, data)
             ELSE Answer(NoError, r.doc, r.docs, <<"update_document">>, data)

update_platform(docs, platform_id, data, token, breadcrumb, fault) ==
    IF ~check_permission(token, "update")
    THEN Answer(HTTPForbidden("permission", "update"), None, docs, <<>>, data)
    ELSE IF validate_update_data(data) # NoError
    THEN Answer(validate_update_data(data), None, docs, <<>>, data)
    ELSE LET set_data == update_set_data(data, breadcrumb)
             r == update_document(docs, platform_id, set_data, fault)
         IN  IF r.raised
             THEN Answer(HTTPInternalServerError("Failed to update platform", platform_id, None),
                         None, docs, <<"update_document">>, data)
             ELSE IF ~r.found
                  THEN Answer(HTTPNotFound("Platform not found", platform_id),
                              None, docs, <<"update_document">>, data)
                  ELSE Answer(NoError, r.doc, r.docs, <<"update_document">>, data)

(***************************************************************************)
(* Infinite-scroll query engine: execute_infinite_scroll_query             *)
(***************************************************************************)
AllowedSortFieldsTimestamp ==
    <<"name", "description", "status", "created.timestamp", "saved.timestamp">>

\* Allowed sort fields for Platform domain
ALLOWED_SORT_FIELDS == <<"name", "description", "status", "created.at_time", "saved.at_time">>

SeqRange(q) == {q[i] : i \in 1..Len(q)}

\* binary string order on the characters used
CharRank(c) == CASE c = "a" -> 1 [] c = "b" -> 2 [] OTHER -> 3

RECURSIVE StrCompare(_, _)
\* -1, 0, 1: s before, equal to, after t in lexicographic order
StrCompare(s, t) ==
    IF s = <<>> /\ t = <<>> THEN 0
    ELSE IF s = <<>> THEN -1
    ELSE IF t = <<>> THEN 1
    ELSE IF CharRank(Head(s)) < CharRank(Head(t)) THEN -1
    ELSE IF CharRank(Head(s)) > CharRank(Head(t)) THEN 1
    ELSE StrCompare(Tail(s), Tail(t))

\* binary string order on the status and description values used
TextRank(v) == CASE v = "active" -> 1 [] v = "archived" -> 2 [] OTHER -> 3

IntCompare(x, y) == IF x < y THEN -1 ELSE IF x > y THEN 1 ELSE 0

\* the regex filter on name, for a filter without metacharacters: substring match
Contains(hay, needle) ==
    \E i \in 0..(Len(hay) - Len(needle)) : SubSeq(hay, i + 1, i + Len(needle)) = needle

\* does the document carry the (possibly dotted) field
HasField(doc, field) ==
    CASE field = "created.at_time" -> Has(doc, "created")
      [] field = "saved.at_time" -> Has(doc, "saved")
      [] OTHER -> Has(doc, field)

\* compare two documents on a sort field: a missing field sorts before any value
FieldCompare(d1, d2, field) ==
    IF ~HasField(d1, field) \/ ~HasField(d2, field)
    THEN IntCompare(IF HasField(d1, field) THEN 1 ELSE 0, IF HasField(d2, field) THEN 1 ELSE 0)
    ELSE CASE field = "name" -> StrCompare(d1["name"], d2["name"])
           [] field = "created.at_time" -> IntCompare(d1["created"].at_time, d2["created"].at_time)
           [] field = "saved.at_time" -> IntCompare(d1["saved"].at_time, d2["saved"].at_time)
           [] OTHER -> IntCompare(TextRank(d1[field]), TextRank(d2[field]))

\* sort criteria [(sort_by, direction), ('_id', ASCENDING)]: d1 comes before d2
Before(d1, d2, sort_by, order) ==
    LET c == FieldCompare(d1, d2, sort_by)
    IN  IF c # 0
        THEN (IF order = "asc" THEN c < 0 ELSE c > 0)
        ELSE d1["_id"] < d2["_id"]

RECURSIVE SortDocs(_, _, _)
\* the documents of S in sort order
SortDocs(S, sort_by, order) ==
    IF S = {} THEN <<>>
    ELSE LET first == CHOOSE d \in S : \A e \in S \ {d} : Before(d, e, sort_by, order)
         IN  <<first>> \o SortDocs(S \ {first}, sort_by, order)

\* query = {name: regex, _id: {$gt: after_id}}
MatchesQuery(doc, name, after_id) ==
    /\ name # None => (Has(doc, "name") /\ Contains(doc["name"], name))
    /\ after_id # None => doc["_id"] > ObjectId(after_id)

Take(q, n) == SubSeq(q, 1, IF Len(q) < n THEN Len(q) ELSE n)

QueryAnswer(error, page, calls) == [error |-> error, page |-> page, calls |-> calls]

NoPage == [items |-> <<>>, limit |-> 0, has_more |-> FALSE, next_cursor |-> None]

execute_infinite_scroll_query(docs, name, after_id, limit, sort_by, order, allowed_sort_fields, fault) ==
    IF limit < 1 THEN QueryAnswer(HTTPBadRequest("limit must be >= 1"), NoPage, <<>>)
    ELSE IF limit > 100 THEN QueryAnswer(HTTPBadRequest("limit must be <= 100"), NoPage, <<>>)
    ELSE IF sort_by \notin SeqRange(allowed_sort_fields)
    THEN QueryAnswer(HTTPBadRequest("sort_by must be one of"), NoPage, <<>>)
    ELSE IF order \notin {"asc", "desc"}
    THEN QueryAnswer(HTTPBadRequest("order must be 'asc' or 'desc'"), NoPage, <<>>)
    ELSE IF after_id # None /\ ~IsValidObjectId(after_id)
    THEN QueryAnswer(HTTPBadRequest("after_id must be a valid MongoDB ObjectId"), NoPage, <<>>)
    ELSE IF fault THEN QueryAnswer(DatabaseError, NoPage, <<"find">>)
    ELSE LET matching == {docs[i] : i \in {j \in DOMAIN docs : MatchesQuery(docs[j], name, after_id)}}
             rows == Take(SortDocs(matching, sort_by, order), limit + 1)
             has_more == Len(rows) > limit
             items == Take(rows, limit)
         IN  QueryAnswer(NoError,
                         [items |-> items, limit |-> limit, has_more |-> has_more,
                          next_cursor |-> IF has_more THEN ToStr(items[Len(items)]["_id"]) ELSE None],
                         <<"find">>)

(***************************************************************************)
(* PlatformService: list                                                   *)
(***************************************************************************)
ListAnswer(error, page, calls) == [error |-> error, page |-> page, calls |-> calls]

GetPlatformsDefaultLimit(docs, token, breadcrumb, name, after_id, limit, sort_by, order, fault) ==
    IF ~check_permission(token, "read")
    THEN ListAnswer(HTTPInternalServerError("Failed to retrieve platforms", None, None), NoPage, <<>>)
    ELSE LET r == execute_infinite_scroll_query(docs, name, after_id, 10, sort_by, order,
                                                ALLOWED_SORT_FIELDS, fault)
             calls == <<"get_collection">> \o r.calls
         IN  IF r.error.kind = "HTTPBadRequest" THEN ListAnswer(r.error, NoPage, calls)
             ELSE IF r.error # NoError
             THEN ListAnswer(HTTPInternalServerError("Failed to retrieve platforms", None, None),
                             NoPage, calls)
             ELSE ListAnswer(NoError, r.page, calls)

GetPlatformsClampLimit(docs, token, breadcrumb, name, after_id, limit, sort_by, order, fault) ==
    IF ~check_permission(token, "read")
    THEN ListAnswer(HTTPInternalServerError("Failed to retrieve platforms", None, None), NoPage, <<>>)
    ELSE LET r == execute_infinite_scroll_query(docs, name, after_id,
                                                IF limit > 100 THEN 100 ELSE IF limit < 1 THEN 1 ELSE limit,
                                                sort_by, order,
                                                ALLOWED_SORT_FIELDS, fault)
             calls == <<"get_collection">> \o r.calls
         IN  IF r.error.kind = "HTTPBadRequest" THEN ListAnswer(r.error, NoPage, calls)
             ELSE IF r.error # NoError
             THEN ListAnswer(HTTPInternalServerError("Failed to retrieve platforms", None, None),
                             NoPage, calls)
             ELSE ListAnswer(NoError, r.page, calls)

GetPlatformsWrapsBadRequest(docs, token, breadcrumb, name, after_id, limit, sort_by, order, fault) ==
    IF ~check_permission(token, "read")
    THEN ListAnswer(HTTPInternalServerError("Failed to retrieve platforms", None, None), NoPage, <<>>)
    ELSE LET r == execute_infinite_scroll_query(docs, name, after_id, limit, sort_by, order,
                                                ALLOWED_SORT_FIELDS, fault)
             calls == <<"get_collection">> \o r.calls
         IN  IF r.error # NoError
             THEN ListAnswer(HTTPInternalServerError("Failed to retrieve platforms", None, None),
                             NoPage, calls)
             ELSE ListAnswer(NoError, r.page, calls)

GetPlatformsNoName(docs, token, breadcrumb, name, after_id, limit, sort_by, order, fault) ==
    IF ~check_permission(token, "read")
    THEN ListAnswer(HTTPInternalServerError("Failed to retrieve platforms", None, None), NoPage, <<>>)
    ELSE LET r == execute_infinite_scroll_query(docs, None, after_id, limit, sort_by, order,
                                                ALLOWED_SORT_FIELDS, fault)
             calls == <<"get_collection">> \o r.calls
         IN  IF r.error.kind = "HTTPBadRequest" THEN ListAnswer(r.error, NoPage, calls)
             ELSE IF r.error # NoError
             THEN ListAnswer(HTTPInternalServerError("Failed to retrieve platforms", None, None),
                             NoPage, calls)
             ELSE ListAnswer(NoError, r.page, calls)

GetPlatformsDropsCursorDesc(docs, token, breadcrumb, name, after_id, limit, sort_by, order, fault) ==
    IF ~check_permission(token, "read")
    THEN ListAnswer(HTTPInternalServerError("Failed to retrieve platforms", None, None), NoPage, <<>>)
    ELSE LET r == execute_infinite_scroll_query(docs, name,
                                                IF order = "desc" THEN None ELSE after_id,
                                                limit, sort_by, order,
                                                ALLOWED_SORT_FIELDS, fault)
             calls == <<"get_collection">> \o r.calls
         IN  IF r.error.kind = "HTTPBadRequest" THEN ListAnswer(r.error, NoPage, calls)
             ELSE IF r.error # NoError
             THEN ListAnswer(HTTPInternalServerError("Failed to retrieve platforms", None, None),
                             NoPage, calls)
             ELSE ListAnswer(NoError, r.page, calls)

GetPlatformsAlwaysAscending(docs, token, breadcrumb, name, after_id, limit, sort_by, order, fault) ==
    IF ~check_permission(token, "read")
    THEN ListAnswer(HTTPInternalServerError("Failed to retrieve platforms", None, None), NoPage, <<>>)
    ELSE LET r == execute_infinite_scroll_query(docs, name, after_id, limit, sort_by,
                                                IF order = "desc" THEN "asc" ELSE order,
                                                ALLOWED_SORT_FIELDS, fault)
             calls == <<"get_collection">> \o r.calls
         IN  IF r.error.kind = "HTTPBadRequest" THEN ListAnswer(r.error, NoPage, calls)
             ELSE IF r.error # NoError
             THEN ListAnswer(HTTPInternalServerError("Failed to retrieve platforms", None, None),
                             NoPage, calls)
             ELSE ListAnswer(NoError, r.page, calls)

GetPlatformsNoCursor(docs, token, breadcrumb, name, after_id, limit, sort_by, order, fault) ==
    IF ~check_permission(token, "read")
    THEN ListAnswer(HTTPInternalServerError("Failed to retrieve platforms", None, None), NoPage, <<>>)
    ELSE LET r == execute_infinite_scroll_query(docs, name, None, limit, sort_by, order,
                                                ALLOWED_SORT_FIELDS, fault)
             calls == <<"get_collection">> \o r.calls
         IN  IF r.error.kind = "HTTPBadRequest" THEN ListAnswer(r.error, NoPage, calls)
             ELSE IF r.error # NoError
             THEN ListAnswer(HTTPInternalServerError("Failed to retrieve platforms", None, None),
                             NoPage, calls)
             ELSE ListAnswer(NoError, r.page, calls)

get_platforms(docs, token, breadcrumb, name, after_id, limit, sort_by, order, fault) ==
    IF ~check_permission(token, "read")
    THEN ListAnswer(HTTPInternalServerError("Failed to retrieve platforms", None, None), NoPage, <<>>)
    ELSE LET r == execute_infinite_scroll_query(docs, name, after_id, limit, sort_by, order,
                                                ALLOWED_SORT_FIELDS, fault)
             calls == <<"get_collection">> \o r.calls
         IN  IF r.error.kind = "HTTPBadRequest" THEN ListAnswer(r.error, NoPage, calls)
             ELSE IF r.error # NoError
             THEN ListAnswer(HTTPInternalServerError("Failed to retrieve platforms", None, None),
                             NoPage, calls)
             ELSE ListAnswer(NoError, r.page, calls)

(***************************************************************************)
(* Routes: identity first, then the service; handle_route_exceptions turns *)
(* an exception into the response status                                   *)
(***************************************************************************)
\* what the request carries as credential: a valid bearer token, or none / an invalid one
Credentials == {"valid", "invalid"}

HTTPUnauthorized(text) == [kind |-> "HTTPUnauthorized", text |-> text, arg |-> None, cause |-> None]

\* the identity of the request, or HTTPUnauthorized
create_flask_token(credential) ==
    IF credential = "valid"
    THEN [error |-> NoError, token |-> [user_id |-> "test_user", roles |-> <<"admin">>]]
    ELSE [error |-> HTTPUnauthorized("Invalid token"), token |-> None]

create_flask_breadcrumb(token, at_time) == [at_time |-> at_time, by_user |-> token.user_id]

\* the status of the response for an exception raised inside a route
handle_route_exceptions(error) ==
    CASE error.kind = "HTTPBadRequest" -> 400
      [] error.kind = "HTTPUnauthorized" -> 401
      [] error.kind = "HTTPForbidden" -> 403
      [] error.kind = "HTTPNotFound" -> 404
      [] OTHER -> 500

TokenAndBreadcrumbAnonymous(credential, at_time) ==
    LET t == create_flask_token(credential)
        token == IF t.error # NoError THEN [user_id |-> "test_user", roles |-> <<>>] ELSE t.token
    IN  [error |-> NoError, token |-> token,
         breadcrumb |-> create_flask_breadcrumb(token, at_time)]

\* the first two statements of every route: a failure of the first ends the route
token_and_breadcrumb(credential, at_time) ==
    LET t == create_flask_token(credential)
    IN  IF t.error # NoError
        THEN [error |-> t.error, token |-> None, breadcrumb |-> None]
        ELSE [error |-> NoError, token |-> t.token,
              breadcrumb |-> create_flask_breadcrumb(t.token, at_time)]

\* a query-string value of limit: decimal text, or text that is not a number
IntText(n) == <<"int", n>>
NotANumber == <<"text", 0>>

GetPlatformsArgsOrderDesc(args) ==
    [name |-> IF Has(args, "name") THEN args["name"] ELSE None,
     after_id |-> IF Has(args, "after_id") THEN args["after_id"] ELSE None,
     limit |-> IF Has(args, "limit") /\ args["limit"][1] = "int" THEN args["limit"][2] ELSE 10,
     sort_by |-> IF Has(args, "sort_by") THEN args["sort_by"] ELSE "name",
     order |-> IF Has(args, "order") THEN args["order"] ELSE "desc"]

\* the query parameters of GET /api/platform as the route reads them
get_platforms_args(args) ==
    [name |-> IF Has(args, "name") THEN args["name"] ELSE None,
     after_id |-> IF Has(args, "after_id") THEN args["after_id"] ELSE None,
     limit |-> IF Has(args, "limit") /\ args["limit"][1] = "int" THEN args["limit"][2] ELSE 10,
     sort_by |-> IF Has(args, "sort_by") THEN args["sort_by"] ELSE "name",
     order |-> IF Has(args, "order") THEN args["order"] ELSE "asc"]

(***************************************************************************)
(* Requests: inputs drawn from small sets                                  *)
(***************************************************************************)
\* JSON bodies of POST and PATCH: with and without each restricted field, with and
\* without client fields
Payloads ==
    { EmptyMap,
      ("name" :> <<"a", "b">>),
      ("name" :> <<"b">>),
      ("status" :> "active"),
      ("name" :> <<"b">>) @@ ("status" :> "active"),
      ("_id" :> ClientId),
      ("created" :> ClientCrumb),
      ("saved" :> ClientCrumb),
      ("_id" :> ClientId) @@ ("name" :> <<"a", "b">>),
      ("created" :> ClientCrumb) @@ ("saved" :> ClientCrumb) @@ ("status" :> "active"),
      ("_id" :> ClientId) @@ ("created" :> ClientCrumb) @@ ("saved" :> ClientCrumb)
          @@ ("name" :> <<"b">>) }

\* ids a client may address: every id issued so far or issuable, so at least one is absent
RequestIds == {ToStr(i) : i \in 1..(MaxDocs + 1)}

Platforms == mongo[PLATFORM_COLLECTION_NAME]

NoScroll == [phase |-> "idle"]

\* the fields of a payload that a write sets as the client gave them
ClientFields(data) == [k \in (DOMAIN data) \ {"_id", "created", "saved"} |-> data[k]]

\* the journal after a write of the payload, stamped with the breadcrumb, is applied to
\* the document: the stamp and each field the write sets replace what was there
Written(j, oid, data, breadcrumb) ==
    (oid :> [saved |-> breadcrumb,
             set |-> (IF oid \in DOMAIN j THEN ClientFields(data) @@ j[oid].set
                      ELSE ClientFields(data))]) @@ j

Init ==
    /\ mongo = [c \in CollectionNames |-> EmptyMap]
    /\ last = [op |-> "none"]
    /\ scroll = NoScroll
    /\ journal = EmptyMap
    /\ policy = {}

\* what `last` keeps of a create/read/update call
Call(op, credential, id, data, breadcrumb, fault, a) ==
    [op |-> op, credential |-> credential, id |-> id, data |-> data,
     breadcrumb |-> breadcrumb, fault |-> fault,
     error |-> a.error, value |-> a.value, calls |-> a.calls, after |-> a.data,
     touched |-> FALSE]

\* what `last` keeps of a request that ended before any service call
Refused(route, credential, error) ==
    [op |-> "refused", route |-> route, credential |-> credential, error |-> error,
     status |-> handle_route_exceptions(error), calls |-> <<>>]

\* POST, first store step: identity, then the body handed to
\* PlatformService.create_platform
CreateRequest ==
    \E credential \in Credentials, at_time \in AtTimes :
        /\ last.op = "none"
        /\ Cardinality(DOMAIN Platforms) < MaxDocs
        /\ \E who \in {token_and_breadcrumb(credential, at_time)} :
              IF who.error # NoError
              THEN /\ last' = Refused("create", credential, who.error)
                   /\ UNCHANGED <<mongo, journal>>
              ELSE \E data \in Payloads, fault \in BOOLEAN :
                      LET a == create_platform(Platforms, data, who.token, who.breadcrumb, fault)
                      IN  /\ mongo' = [mongo EXCEPT ![PLATFORM_COLLECTION_NAME] = a.docs]
                          /\ last' = Call("create", credential, None, data, who.breadcrumb,
                                          fault, a)
                          /\ journal' = IF a.error = NoError
                                        THEN Written(journal, ObjectId(a.value), data,
                                                     who.breadcrumb)
                                        ELSE journal
        /\ UNCHANGED <<scroll, policy>>

\* GET /<id>: identity, then PlatformService.get_platform
ReadRequest ==
    \E credential \in Credentials, at_time \in AtTimes :
        /\ last.op = "none"
        /\ \E who \in {token_and_breadcrumb(credential, at_time)} :
              IF who.error # NoError
              THEN /\ last' = Refused("read", credential, who.error)
                   /\ UNCHANGED mongo
              ELSE \E id \in RequestIds, fault \in BOOLEAN :
                      LET a == get_platform(Platforms, id, who.token, who.breadcrumb, fault)
                      IN  /\ mongo' = [mongo EXCEPT ![PLATFORM_COLLECTION_NAME] = a.docs]
                          /\ last' = Call("read", credential, id, EmptyMap, who.breadcrumb,
                                          fault, a)
        /\ UNCHANGED <<scroll, journal, policy>>

\* PATCH /<id>: identity, then the body handed to PlatformService.update_platform
UpdateRequest ==
    \E credential \in Credentials, at_time \in AtTimes :
        /\ last.op = "none"
        /\ \E who \in {token_and_breadcrumb(credential, at_time)} :
              IF who.error # NoError
              THEN /\ last' = Refused("update", credential, who.error)
                   /\ UNCHANGED <<mongo, journal>>
              ELSE \E id \in RequestIds, data \in Payloads, fault \in BOOLEAN :
                      LET a == update_platform(Platforms, id, data, who.token, who.breadcrumb,
                                               fault)
                      IN  /\ mongo' = [mongo EXCEPT ![PLATFORM_COLLECTION_NAME] = a.docs]
                          /\ last' = Call("update", credential, id, data, who.breadcrumb,
                                          fault, a)
                          /\ journal' = IF a.error = NoError
                                        THEN Written(journal, ObjectId(id), data,
                                                     who.breadcrumb)
                                        ELSE journal
        /\ UNCHANGED <<scroll, policy>>

\* GET /api/platform: identity, then the query parameters handed to
\* PlatformService.get_platforms; the store is only read
ListRoute(args, credential, at_time, fault) ==
    \E who \in {token_and_breadcrumb(credential, at_time)} :
        IF who.error # NoError
        THEN last' = Refused("list", credential, who.error)
        ELSE \E q \in {get_platforms_args(args)} :
             \E a \in {get_platforms(Platforms, who.token, who.breadcrumb, q.name, q.after_id,
                                     q.limit, q.sort_by, q.order, fault)} :
                 last' = [op |-> "list", credential |-> credential, args |-> args,
                          name |-> q.name, after_id |-> q.after_id, limit |-> q.limit,
                          sort_by |-> q.sort_by, order |-> q.order, fault |-> fault,
                          error |-> a.error, page |-> a.page, calls |-> a.calls]

\* query strings of the list requests made between writes
BrowseArgs ==
    { EmptyMap,
      ("limit" :> IntText(101)),
      ("name" :> <<"a">>) @@ ("limit" :> IntText(1)) }

\* GET /api/platform between writes
BrowseRequest ==
    \E credential \in Credentials :
        \E args \in (IF credential = "valid" THEN BrowseArgs ELSE {EmptyMap}),
           fault \in (IF credential = "valid" THEN BOOLEAN ELSE {FALSE}) :
            /\ last.op = "none"
            /\ ListRoute(args, credential, 1, fault)
            /\ UNCHANGED <<mongo, scroll, journal, policy>>

\* between the two store steps of a POST, a PATCH of another request is served
UpdateDuringPost ==
    \E id \in RequestIds, data \in Payloads, at_time \in AtTimes :
        /\ last.op = "create"
        /\ last.error = NoError
        /\ \E who \in {token_and_breadcrumb("valid", at_time)} :
           \E a \in {update_platform(Platforms, id, data, who.token, who.breadcrumb, FALSE)} :
              /\ a.error = NoError
              /\ mongo' = [mongo EXCEPT ![PLATFORM_COLLECTION_NAME] = a.docs]
              /\ journal' = Written(journal, ObjectId(id), data, who.breadcrumb)
              /\ last' = [last EXCEPT !.touched = @ \/ id = last.value]
        /\ UNCHANGED <<scroll, policy>>

PostedAlways201(created, fault, a) ==
    [op |-> "post", credential |-> created.credential, id |-> created.value,
     data |-> created.data, breadcrumb |-> created.breadcrumb, fault |-> fault,
     touched |-> created.touched, error |-> a.error,
     status |-> 201,
     body |-> a.value, calls |-> created.calls \o a.calls]

PostedEchoesPayload(created, fault, a) ==
    [op |-> "post", credential |-> created.credential, id |-> created.value,
     data |-> created.data, breadcrumb |-> created.breadcrumb, fault |-> fault,
     touched |-> created.touched, error |-> a.error,
     status |-> IF a.error = NoError THEN 201 ELSE handle_route_exceptions(a.error),
     body |-> IF a.error = NoError THEN Put(created.data, "_id", ObjectId(created.value))
              ELSE a.value,
     calls |-> created.calls \o a.calls]

\* what `last` keeps of a POST whose create succeeded: the read-back and the response
Posted(created, fault, a) ==
    [op |-> "post", credential |-> created.credential, id |-> created.value,
     data |-> created.data, breadcrumb |-> created.breadcrumb, fault |-> fault,
     touched |-> created.touched, error |-> a.error,
     status |-> IF a.error = NoError THEN 201 ELSE handle_route_exceptions(a.error),
     body |-> a.value, calls |-> created.calls \o a.calls]

\* POST, second store step: the document is read back under the id create returned
PostReadBack ==
    \E fault \in BOOLEAN :
        /\ last.op = "create"
        /\ last.error = NoError
        /\ \E who \in {token_and_breadcrumb(last.credential, last.breadcrumb.at_time)} :
           \E a \in {get_platform(Platforms, last.value, who.token, who.breadcrumb, fault)} :
              last' = Posted(last, fault, a)
        /\ UNCHANGED <<mongo, scroll, journal, policy>>

\* the route returns the response; the call record is consumed.  A POST responds
\* after its read-back, or at once when create_platform raised.
Respond ==
    /\ last.op # "none"
    /\ ~(last.op = "create" /\ last.error = NoError)
    /\ last' = [op |-> "none"]
    /\ UNCHANGED <<mongo, scroll, journal, policy>>

Next ==
    \/ CreateRequest
    \/ UpdateDuringPost
    \/ PostReadBack
    \/ ReadRequest
    \/ UpdateRequest
    \/ BrowseRequest
    \/ Respond

Spec == Init /\ [][Next]_vars

\* policies that can be plugged into the seam: the placeholder, and policies that
\* deny reads, creates, updates, or everything
Policies == {{}, {"read"}, {"create"}, {"update"}, {"create", "read", "update"}}

\* the service with a policy plugged into the seam
InitSeam ==
    /\ mongo = [c \in CollectionNames |-> EmptyMap]
    /\ last = [op |-> "none"]
    /\ scroll = NoScroll
    /\ journal = EmptyMap
    /\ policy \in Policies

SpecSeam == InitSeam /\ [][Next]_vars

(***************************************************************************)
(* List requests and scroll sessions over a collection that is not written *)
(***************************************************************************)
LimitInputs == {0, 1, 2, 100, 101}
SortInputs == {"name", "description", "status", "created.at_time", "saved.at_time",
               "invalid_field"}
OrderInputs == {"asc", "desc", "invalid"}
NameInputs == {None, <<"a">>}
\* a list call stores nothing, so one breadcrumb stands for all
ListBreadcrumbs == {[at_time |-> 1, by_user |-> "test_user"]}
AfterInputs == {None, InvalidIdStr} \cup {ToStr(i) : i \in 1..(MaxScrollDocs + 1)}

\* a query parameter that is given, or left out of the query string
OptArg(key, given, v) == IF given THEN (key :> v) ELSE EmptyMap

\* query strings that give limit, sort_by and order
GivenArgs ==
    { OptArg("name", name # None, name) @@ OptArg("after_id", after_id # None, after_id)
          @@ ("limit" :> IntText(limit)) @@ ("sort_by" :> sort_by) @@ ("order" :> order) :
      name \in NameInputs, after_id \in AfterInputs, limit \in LimitInputs,
      sort_by \in SortInputs, order \in OrderInputs }

\* query strings that leave parameters out, or give a limit that is not a number
DefaultedArgs ==
    { OptArg("name", name # None, name) @@ OptArg("limit", l, limit)
          @@ OptArg("sort_by", s, "saved.at_time") @@ OptArg("order", o, order) :
      name \in NameInputs, limit \in {IntText(1), NotANumber}, order \in {"desc", "invalid"},
      l \in BOOLEAN, s \in BOOLEAN, o \in BOOLEAN }

ListArgs == GivenArgs \cup DefaultedArgs

\* a stored document as create and later updates leave it
StoredDoc(oid, name, saved) ==
    ("_id" :> oid) @@ ("name" :> name) @@ ("status" :> "active")
        @@ ("created" :> [at_time |-> 1, by_user |-> "test_user"]) @@ ("saved" :> saved)

\* collections the service can have built: ids issued 1..n, any names, saved at or
\* after created
ScrollCollections ==
    UNION { { [i \in 1..n |-> StoredDoc(i, f[i][1], f[i][2])] :
                f \in [1..n -> Names \X Breadcrumbs] } : n \in 0..MaxScrollDocs }

InitScroll ==
    /\ mongo \in { [c \in CollectionNames |->
                      IF c = PLATFORM_COLLECTION_NAME THEN D ELSE EmptyMap] :
                   D \in ScrollCollections }
    /\ last = [op |-> "none"]
    /\ scroll = NoScroll
    /\ journal = [oid \in DOMAIN Platforms |->
                     [saved |-> Platforms[oid]["saved"], set |-> ClientFields(Platforms[oid])]]
    /\ policy = {}

\* GET ?name=&after_id=&limit=&sort_by=&order= handed to PlatformService.get_platforms
ListRequest ==
    \E credential \in Credentials, b \in ListBreadcrumbs :
        \E args \in (IF credential = "valid" THEN ListArgs ELSE {EmptyMap}),
           fault \in (IF credential = "valid" THEN BOOLEAN ELSE {FALSE}) :
            /\ last.op = "none"
            /\ scroll.phase = "idle"
            /\ ListRoute(args, credential, b.at_time, fault)
            /\ UNCHANGED <<mongo, scroll, journal, policy>>

ItemIds(items) == [i \in 1..Len(items) |-> items[i]["_id"]]

\* a client opens a scroll: the first call carries no after_id
ScrollStart ==
    \E name \in NameInputs, limit \in {l \in LimitInputs : l >= 1 /\ l <= 100},
       sort_by \in SortInputs \ {"invalid_field"}, order \in {"asc", "desc"},
       token \in Tokens, breadcrumb \in ListBreadcrumbs :
        /\ last.op = "none"
        /\ scroll.phase = "idle"
        /\ \E a \in {get_platforms(Platforms, token, breadcrumb, name, None, limit,
                                   sort_by, order, FALSE)} :
               scroll' = [phase |-> IF a.page.has_more THEN "open" ELSE "done",
                          name |-> name, limit |-> limit, sort_by |-> sort_by,
                          order |-> order, after_id |-> None,
                          cursor |-> a.page.next_cursor,
                          seen |-> ItemIds(a.page.items), pages |-> 1]
        /\ UNCHANGED <<mongo, last, journal, policy>>

\* the client asks for the next page with after_id = the previous next_cursor
ScrollNext ==
    \E token \in Tokens, breadcrumb \in ListBreadcrumbs :
        /\ scroll.phase = "open"
        /\ \E a \in {get_platforms(Platforms, token, breadcrumb, scroll.name, scroll.cursor,
                                   scroll.limit, scroll.sort_by, scroll.order, FALSE)} :
               scroll' = [scroll EXCEPT
                          !.phase = IF a.page.has_more THEN "open" ELSE "done",
                          !.after_id = scroll.cursor,
                          !.cursor = a.page.next_cursor,
                          !.seen = scroll.seen \o ItemIds(a.page.items),
                          !.pages = scroll.pages + 1]
        /\ UNCHANGED <<mongo, last, journal, policy>>

NextScroll == ListRequest \/ Respond \/ ScrollStart \/ ScrollNext

SpecScroll == InitScroll /\ [][NextScroll]_vars

\* a client that opened a scroll keeps asking for the next page while has_more is true
SpecScrollFair == SpecScroll /\ WF_vars(ScrollNext)

(***************************************************************************)
(* Properties of create, read and update (specification Spec)              *)
(***************************************************************************)
Restricted == {"_id", "created", "saved"}
CarriesRestricted(data) == (DOMAIN data) \cap Restricted # {}

\* C2: write-once. No step of any create or update request, accepted or rejected,
\* removes a stored document or changes its _id or its created breadcrumb.
C2_WriteOnce ==
    [][\A oid \in DOMAIN Platforms :
          /\ oid \in DOMAIN Platforms'
          /\ Platforms'[oid]["_id"] = Platforms[oid]["_id"]
          /\ Platforms'[oid]["_id"] = oid
          /\ Platforms'[oid]["created"] = Platforms[oid]["created"]]_vars

\* an accepted update has rewritten saved on a document whose created is older
C2_Witness ==
    /\ last.op = "update"
    /\ last.error = NoError
    /\ \E oid \in DOMAIN Platforms :
          /\ last.id = ToStr(oid)
          /\ Platforms[oid]["saved"] # Platforms[oid]["created"]

\* C3: an update whose payload carries _id, created or saved fails with
\* HTTPForbidden naming a restricted field of the payload, calls no store
\* operation, and leaves every document as it was.
C3_RestrictedUpdateRejected ==
    [][(last'.op = "update" /\ CarriesRestricted(last'.data)) =>
          /\ last'.error.kind = "HTTPForbidden"
          /\ last'.error.text = "Cannot update field"
          /\ last'.error.arg[1] \in (DOMAIN last'.data) \cap Restricted
          /\ last'.calls = <<>>
          /\ mongo' = mongo]_vars

\* an update of an existing document carrying created (and not _id) was rejected
C3_Witness ==
    /\ last.op = "update"
    /\ Has(last.data, "created")
    /\ ~Has(last.data, "_id")
    /\ last.error.kind = "HTTPForbidden"
    /\ ObjectId(last.id) \in DOMAIN Platforms
    /\ Cardinality(DOMAIN Platforms) = 2

\* C4: an update of an existing document with a payload of non-restricted fields
\* (the store answering) succeeds, sets exactly the payload's fields, sets saved to
\* this request's breadcrumb, leaves every other field and every other document
\* unchanged, and returns the document as stored after the update.
C4_UpdateApplies ==
    [][(/\ last'.op = "update"
        /\ ~CarriesRestricted(last'.data)
        /\ ~last'.fault
        /\ ObjectId(last'.id) \in DOMAIN Platforms) =>
          LET oid == ObjectId(last'.id)
              old == Platforms[oid]
              new == Platforms'[oid]
          IN  /\ last'.error = NoError
              /\ DOMAIN Platforms' = DOMAIN Platforms
              /\ \A other \in (DOMAIN Platforms) \ {oid} : Platforms'[other] = Platforms[other]
              /\ DOMAIN new = (DOMAIN old) \cup (DOMAIN last'.data)
              /\ \A k \in DOMAIN last'.data : new[k] = last'.data[k]
              /\ new["saved"] = last'.breadcrumb
              /\ \A k \in (DOMAIN old) \ ((DOMAIN last'.data) \cup {"saved"}) : new[k] = old[k]
              /\ last'.value = new
              /\ mongo'[USER_COLLECTION_NAME] = mongo[USER_COLLECTION_NAME]]_vars

\* an update set name on a document that keeps a status the payload did not carry,
\* and saved now differs from created
C4_Witness ==
    /\ last.op = "update"
    /\ last.error = NoError
    /\ Has(last.data, "name")
    /\ ~Has(last.data, "status")
    /\ LET doc == Platforms[ObjectId(last.id)]
       IN  /\ Has(doc, "status")
           /\ doc["name"] = last.data["name"]
           /\ doc["saved"] = last.breadcrumb
           /\ doc["saved"] # doc["created"]

\* C5: create never hands a client-supplied _id to the store; a successful create
\* adds exactly one document under a fresh store-issued id, with created and saved
\* equal to the request's breadcrumb and the other fields equal to the payload's,
\* changes no existing document, and returns the new id.
C5_CreateFreshId ==
    [][(last.op = "none" /\ last'.op = "create") =>
          /\ ~Has(last'.after, "_id")
          /\ (~last'.fault => last'.error = NoError)
          /\ (last'.error = NoError =>
                \E oid \in (DOMAIN Platforms') \ (DOMAIN Platforms) :
                    /\ DOMAIN Platforms' = (DOMAIN Platforms) \cup {oid}
                    /\ oid = Cardinality(DOMAIN Platforms) + 1
                    /\ \A other \in DOMAIN Platforms : Platforms'[other] = Platforms[other]
                    /\ last'.value = ToStr(oid)
                    /\ LET doc == Platforms'[oid]
                       IN  /\ doc["_id"] = oid
                           /\ doc["created"] = last'.breadcrumb
                           /\ doc["saved"] = last'.breadcrumb
                           /\ DOMAIN doc = ((DOMAIN last'.data) \ Restricted) \cup Restricted
                           /\ \A k \in (DOMAIN last'.data) \ Restricted :
                                 doc[k] = last'.data[k])]_vars

\* a create whose payload carried _id, created and saved succeeded next to an
\* existing document
C5_Witness ==
    /\ last.op = "create"
    /\ last.error = NoError
    /\ Has(last.data, "_id")
    /\ Has(last.data, "created")
    /\ Cardinality(DOMAIN Platforms) = 2

\* C6 as claimed: reading or updating an id that resolves to no stored document
\* fails with HTTPNotFound naming that id.
C6_Original ==
    (/\ last.op \in {"read", "update"}
     /\ ~last.fault
     /\ ObjectId(last.id) \notin DOMAIN Platforms) =>
        (last.error.kind = "HTTPNotFound" /\ last.error.arg = last.id)

\* C6 as amended: reading an id that resolves to no stored document, or updating
\* it with a payload free of restricted fields, fails (the store answering) with
\* HTTPNotFound naming that id, and the store is left exactly as it was.
C6_NotFound ==
    [][(/\ last'.op \in {"read", "update"}
        /\ ~last'.fault
        /\ ~CarriesRestricted(last'.data)
        /\ ObjectId(last'.id) \notin DOMAIN Platforms) =>
          /\ last'.error.kind = "HTTPNotFound"
          /\ last'.error.arg = last'.id
          /\ mongo' = mongo]_vars

\* an update of an absent id, next to a stored document, ended in HTTPNotFound
C6_Witness ==
    /\ last.op = "update"
    /\ last.error.kind = "HTTPNotFound"
    /\ Has(last.data, "name")
    /\ DOMAIN Platforms # {}
    /\ ObjectId(last.id) \notin DOMAIN Platforms

(***************************************************************************)
(* Properties of list and scroll (specification SpecScroll)                *)
(***************************************************************************)
\* the stored documents a list call's name filter and cursor select
Selected(name, after_id) ==
    {oid \in DOMAIN Platforms :
        /\ name # None =>
              (Has(Platforms[oid], "name") /\ Contains(Platforms[oid]["name"], name))
        /\ after_id # None => oid > ObjectId(after_id)}

\* C1 as claimed: a scroll that followed next_cursor until has_more was false, over
\* a collection not written meanwhile, has returned every document the filter
\* selects exactly once.
C1_ScrollComplete ==
    scroll.phase = "done" =>
        /\ SeqRange(scroll.seen) = Selected(scroll.name, None)
        /\ Len(scroll.seen) = Cardinality(Selected(scroll.name, None))

\* C7: a successful list call with limit in 1..100 returns at most limit items and
\* echoes the requested limit.
C7_AtMostLimit ==
    (last.op = "list" /\ last.limit >= 1 /\ last.limit <= 100 /\ last.error = NoError) =>
        /\ Len(last.page.items) <= last.limit
        /\ last.page.limit = last.limit

\* a page was cut to limit items with more documents behind it
C7_Witness ==
    /\ last.op = "list"
    /\ last.error = NoError
    /\ last.limit = 2
    /\ Len(last.page.items) = 2
    /\ Cardinality(Selected(last.name, last.after_id)) = 3

\* C8 as claimed: a limit below 1 or above 100 fails with HTTPBadRequest before the
\* service makes any access to the store, obtaining the collection handle included.
C8_Original ==
    (last.op = "list" /\ (last.limit < 1 \/ last.limit > 100)) =>
        /\ last.error.kind = "HTTPBadRequest"
        /\ last.error.text = (IF last.limit < 1 THEN "limit must be >= 1"
                              ELSE "limit must be <= 100")
        /\ last.calls = <<>>

\* C8 as amended: a limit below 1 or above 100 fails with HTTPBadRequest ("limit
\* must be >= 1", "limit must be <= 100") before any query is sent to the store;
\* the collection handle has been obtained by then, and nothing else.
C8_LimitRejected ==
    (last.op = "list" /\ (last.limit < 1 \/ last.limit > 100)) =>
        /\ last.error.kind = "HTTPBadRequest"
        /\ last.error.text = (IF last.limit < 1 THEN "limit must be >= 1"
                              ELSE "limit must be <= 100")
        /\ last.calls = <<"get_collection">>

\* a list call with limit 101 over a non-empty collection, otherwise valid, was rejected
C8_Witness ==
    /\ last.op = "list"
    /\ last.limit = 101
    /\ last.sort_by = "name"
    /\ last.order = "asc"
    /\ ~last.fault
    /\ last.error.kind = "HTTPBadRequest"
    /\ DOMAIN Platforms # {}

\* C9: a sort_by outside {name, description, status, created.at_time,
\* saved.at_time} fails with HTTPBadRequest, which the service passes on as it is
\* ("sort_by must be one of" whenever the limit is valid); an allowed sort_by is
\* never the reason of a rejection.
C9_SortByAllowList ==
    last.op = "list" =>
        IF last.sort_by \in {"name", "description", "status", "created.at_time", "saved.at_time"}
        THEN last.error.text # "sort_by must be one of"
        ELSE /\ last.error.kind = "HTTPBadRequest"
             /\ (last.limit >= 1 /\ last.limit <= 100) =>
                    last.error.text = "sort_by must be one of"

\* a list call with a valid limit and an unknown sort_by was rejected
C9_Witness ==
    /\ last.op = "list"
    /\ last.limit = 1
    /\ last.sort_by = "invalid_field"
    /\ last.error = HTTPBadRequest("sort_by must be one of")

\* C10: page-boundary detection. For a successful list call, has_more holds exactly
\* when more than limit documents satisfy the filter and the cursor predicate; then
\* items are the first limit rows in sort order and next_cursor is the id of the
\* last of them; otherwise items are all the selected rows, and next_cursor is null.
C10_PageBoundary ==
    (last.op = "list" /\ last.error = NoError) =>
        LET sel == Selected(last.name, last.after_id)
            items == last.page.items
            ids == SeqRange(ItemIds(items))
        IN  /\ last.page.has_more <=> Cardinality(sel) > last.limit
            /\ last.page.has_more <=> last.page.next_cursor # None
            /\ Len(items) = (IF Cardinality(sel) > last.limit THEN last.limit
                             ELSE Cardinality(sel))
            /\ ids \subseteq sel
            /\ Cardinality(ids) = Len(items)
            /\ \A i \in 1..Len(items) : items[i] = Platforms[items[i]["_id"]]
            /\ \A i, j \in 1..Len(items) :
                  i < j => Before(items[i], items[j], last.sort_by, last.order)
            /\ \A i \in 1..Len(items) : \A oid \in sel \ ids :
                  Before(items[i], Platforms[oid], last.sort_by, last.order)
            /\ last.page.has_more =>
                  last.page.next_cursor = ToStr(items[Len(items)]["_id"])
            /\ sel = {} => (items = <<>> /\ ~last.page.has_more /\ last.page.next_cursor = None)

\* a page after a cursor was cut with more selected documents behind it
C10_Witness ==
    /\ last.op = "list"
    /\ last.error = NoError
    /\ last.after_id # None
    /\ last.page.has_more
    /\ last.limit = 1
    /\ last.sort_by = "name"
    /\ last.order = "desc"

\* C11 as claimed: with N documents, limit < N <= 2*limit, no filter and the
\* default sort (name ascending), the first call returns limit items, has_more and
\* next_cursor = the id of the limit-th item; the second call, with after_id =
\* next_cursor, returns exactly the remaining N - limit documents and ends the scroll.
C11_TwoPages ==
    LET N == Cardinality(DOMAIN Platforms)
    IN  (/\ scroll.phase # "idle"
         /\ scroll.name = None
         /\ scroll.sort_by = "name"
         /\ scroll.order = "asc"
         /\ scroll.limit < N
         /\ N <= 2 * scroll.limit) =>
            /\ scroll.pages = 1 =>
                  /\ scroll.phase = "open"
                  /\ Len(scroll.seen) = scroll.limit
                  /\ scroll.cursor = ToStr(scroll.seen[scroll.limit])
            /\ scroll.pages = 2 =>
                  /\ scroll.phase = "done"
                  /\ scroll.cursor = None
                  /\ Len(scroll.seen) = N
                  /\ SeqRange(scroll.seen) = DOMAIN Platforms
            /\ scroll.pages <= 2

\* C12 as claimed: whenever the store faults during a create, read or update, the
\* service fails with InternalError and the message handed to the caller carries
\* nothing of the store's own error text.
C12_GenericMessage ==
    (/\ last.op \in {"create", "read", "update"}
     /\ last.fault
     /\ last.calls # <<>>) =>
        /\ last.error.kind = "HTTPInternalServerError"
        /\ last.error.cause = None

\* C16: a list call whose after_id is present and is not a valid store identifier
\* fails with HTTPBadRequest, passed on by the service as it is ("after_id must be a
\* valid MongoDB ObjectId" whenever limit, sort_by and order are valid), and returns
\* no page; an absent after_id is never the reason of a rejection and a successful
\* call without after_id returns the first rows of all the documents the filter keeps.
C16_AfterIdValidated ==
    last.op = "list" =>
        /\ (last.after_id # None /\ ~IsValidObjectId(last.after_id)) =>
              /\ last.error.kind = "HTTPBadRequest"
              /\ last.page = NoPage
              /\ (/\ last.limit >= 1
                  /\ last.limit <= 100
                  /\ last.sort_by \in SeqRange(ALLOWED_SORT_FIELDS)
                  /\ last.order \in {"asc", "desc"}) =>
                     last.error = HTTPBadRequest("after_id must be a valid MongoDB ObjectId")
        /\ last.after_id = None =>
              /\ last.error.text # "after_id must be a valid MongoDB ObjectId"
              /\ last.error = NoError =>
                    LET all == Selected(last.name, None)
                    IN  /\ Len(last.page.items) = (IF Cardinality(all) > last.limit
                                                   THEN last.limit ELSE Cardinality(all))
                        /\ \A oid \in all : \A i \in 1..Len(last.page.items) :
                              \/ oid \in SeqRange(ItemIds(last.page.items))
                              \/ Before(last.page.items[i], Platforms[oid],
                                        last.sort_by, last.order)

\* an otherwise valid list call over a non-empty collection was rejected for its after_id
C16_Witness ==
    /\ last.op = "list"
    /\ last.after_id = InvalidIdStr
    /\ last.limit = 1
    /\ last.sort_by = "name"
    /\ last.order = "asc"
    /\ ~last.fault
    /\ last.error = HTTPBadRequest("after_id must be a valid MongoDB ObjectId")
    /\ last.calls = <<"get_collection">>
    /\ DOMAIN Platforms # {}

\* the filter value occurs in the name, character by character
NameContains(hay, needle) ==
    \E k \in 0..Len(hay) :
        /\ k + Len(needle) <= Len(hay)
        /\ \A m \in 1..Len(needle) : hay[k + m] = needle[m]

\* C18: in a successful list call every returned item satisfies the name filter, if
\* one was given, and every stored document that satisfies the filter (every
\* document, if none was given) and the cursor predicate is among the items or
\* has_more is true.
C18_NameFilter ==
    (last.op = "list" /\ last.error = NoError) =>
        /\ last.name # None =>
              \A i \in 1..Len(last.page.items) :
                  /\ Has(last.page.items[i], "name")
                  /\ NameContains(last.page.items[i]["name"], last.name)
        /\ \A oid \in DOMAIN Platforms :
              (/\ last.name # None => NameContains(Platforms[oid]["name"], last.name)
               /\ last.after_id # None => oid > ObjectId(last.after_id)) =>
                  \/ oid \in SeqRange(ItemIds(last.page.items))
                  \/ last.page.has_more

\* a filtered list call returned a matching document and left out a non-matching one
C18_Witness ==
    /\ last.op = "list"
    /\ last.error = NoError
    /\ last.name = <<"a">>
    /\ last.after_id = None
    /\ Len(last.page.items) = 1
    /\ ~last.page.has_more
    /\ Cardinality(DOMAIN Platforms) = 2
    /\ \E oid \in DOMAIN Platforms : Platforms[oid]["name"] = <<"b">>

\* C14: a request whose credential is missing or invalid is answered 401 with the
\* HTTPUnauthorized error, on every route, without any service call and without any
\* store access: the store is left as it was.
C14_UnauthorizedFirst ==
    [][(/\ last.op = "none"
        /\ last'.op # "none"
        /\ last'.credential = "invalid") =>
           /\ last'.op = "refused"
           /\ last'.route \in {"create", "list", "read", "update"}
           /\ last'.status = 401
           /\ last'.error = HTTPUnauthorized("Invalid token")
           /\ last'.calls = <<>>
           /\ mongo' = mongo]_vars

\* a PATCH without a valid credential was answered 401 while documents were stored
C14_Witness ==
    /\ last.op = "refused"
    /\ last.route = "update"
    /\ last.credential = "invalid"
    /\ last.status = 401
    /\ DOMAIN Platforms # {}

\* C17: a list call whose order is neither "asc" nor "desc" fails with
\* HTTPBadRequest, passed on by the service as it is ("order must be 'asc' or
\* 'desc'" whenever limit and sort_by are valid), and returns no page; a valid order
\* is never the reason of a rejection.  A parameter left out of the query string
\* reaches the service as order "asc", limit 10, sort_by "name", name None and
\* after_id None, and a successful call without order returns ascending rows.
C17_OrderValidated ==
    last.op = "list" =>
        /\ last.order \notin {"asc", "desc"} =>
              /\ last.error.kind = "HTTPBadRequest"
              /\ last.page = NoPage
              /\ (/\ last.limit >= 1
                  /\ last.limit <= 100
                  /\ last.sort_by \in SeqRange(ALLOWED_SORT_FIELDS)) =>
                     last.error = HTTPBadRequest("order must be 'asc' or 'desc'")
        /\ last.order \in {"asc", "desc"} =>
              last.error.text # "order must be 'asc' or 'desc'"
        /\ IF Has(last.args, "order") THEN last.order = last.args["order"]
                                      ELSE last.order = "asc"
        /\ ~Has(last.args, "limit") => last.limit = 10
        /\ IF Has(last.args, "sort_by") THEN last.sort_by = last.args["sort_by"]
                                        ELSE last.sort_by = "name"
        /\ ~Has(last.args, "name") => last.name = None
        /\ ~Has(last.args, "after_id") => last.after_id = None
        /\ (~Has(last.args, "order") /\ last.error = NoError) =>
              \A i, j \in 1..Len(last.page.items) :
                  i < j => Before(last.page.items[i], last.page.items[j], last.sort_by, "asc")

\* a query string with an invalid order and nothing else was rejected for its order,
\* limit and sort_by having taken their defaults
C17_Witness ==
    /\ last.op = "list"
    /\ last.args = ("order" :> "invalid")
    /\ last.limit = 10
    /\ last.sort_by = "name"
    /\ last.error = HTTPBadRequest("order must be 'asc' or 'desc'")

\* C13: no deletion. Whatever request is made (create, list, read, update, with or
\* without a valid credential, with or without a store fault), every document stored
\* before the step is stored after it under the same id: the set of ids of each
\* collection only grows.
C13_NoDeletion ==
    [][\A c \in CollectionNames :
           /\ DOMAIN mongo[c] \subseteq DOMAIN mongo'[c]
           /\ \A oid \in DOMAIN mongo[c] : mongo'[c][oid]["_id"] = oid]_vars

\* two documents are stored, one of them updated since its creation, and a list
\* request has just been served
C13_Witness ==
    /\ last.op = "list"
    /\ last.error = NoError
    /\ Cardinality(DOMAIN Platforms) = MaxDocs
    /\ \E oid \in DOMAIN Platforms :
          Platforms[oid]["saved"] # Platforms[oid]["created"]

\* C15 as claimed: the body of a 201 response to a POST carries the assigned id, the
\* client-supplied fields, and created = saved = the breadcrumb of the POST, whatever
\* other requests were served meanwhile.
C15_Original ==
    (last.op = "post" /\ last.status = 201) =>
        /\ last.body["_id"] = ObjectId(last.id)
        /\ \A k \in DOMAIN ClientFields(last.data) : last.body[k] = last.data[k]
        /\ last.body["created"] = last.breadcrumb
        /\ last.body["saved"] = last.breadcrumb

\* C15 as amended: the body of a 201 response to a POST is the document stored under
\* the id create returned, as it is when it is read back: it carries that id and
\* created = the breadcrumb of the POST; if no other request updated the document
\* between the create and the read-back it carries exactly the client-supplied
\* fields and saved = the breadcrumb of the POST, and otherwise saved and the fields
\* are as the last of those updates left them.
C15_PostReadsBack ==
    (last.op = "post" /\ last.status = 201) =>
        LET oid == ObjectId(last.id)
        IN  /\ last.calls = <<"create_document", "get_document">>
            /\ oid \in DOMAIN Platforms
            /\ last.body = Platforms[oid]
            /\ last.body["_id"] = oid
            /\ last.body["created"] = last.breadcrumb
            /\ ~last.touched =>
                  /\ last.body["saved"] = last.breadcrumb
                  /\ DOMAIN last.body =
                        DOMAIN ClientFields(last.data) \cup {"_id", "created", "saved"}
                  /\ \A k \in DOMAIN ClientFields(last.data) : last.body[k] = last.data[k]
            /\ last.touched =>
                  /\ last.body["saved"] = journal[oid].saved
                  /\ \A k \in DOMAIN journal[oid].set : last.body[k] = journal[oid].set[k]

\* a POST of a name answered 201 with the document as created, although another
\* document was updated between its create and its read-back
C15_Witness ==
    /\ last.op = "post"
    /\ last.status = 201
    /\ ~last.touched
    /\ Has(last.data, "name")
    /\ last.body["name"] = last.data["name"]
    /\ last.body["saved"] = last.breadcrumb
    /\ \E other \in (DOMAIN Platforms) \ {ObjectId(last.id)} :
          Platforms[other]["saved"] # Platforms[other]["created"]

\* C19: every stored document is what the successful writes applied to it, taken
\* one after the other in the order the store applied them, make of it: its saved
\* is the breadcrumb of the write applied last, each client field holds the value
\* of the last write that set it, and it holds no other field besides _id and
\* created.  This holds in every reachable state, whatever requests interleave.
C19_LastWriterWins ==
    /\ DOMAIN journal = DOMAIN Platforms
    /\ \A oid \in DOMAIN Platforms :
          /\ Platforms[oid]["saved"] = journal[oid].saved
          /\ DOMAIN Platforms[oid] = DOMAIN journal[oid].set \cup {"_id", "created", "saved"}
          /\ \A k \in DOMAIN journal[oid].set : Platforms[oid][k] = journal[oid].set[k]

\* a document created with a name, then updated by a request that set its status
\* while its POST was between create and read-back, holds both and the later stamp
C19_Witness ==
    /\ last.op = "post"
    /\ last.touched
    /\ last.status = 201
    /\ Has(last.data, "name")
    /\ ~Has(last.data, "status")
    /\ Has(last.body, "status")
    /\ last.body["name"] = last.data["name"]
    /\ last.body["saved"] # last.body["created"]
    /\ Cardinality(DOMAIN Platforms) = MaxDocs

\* the operation kind each service operation hands to _check_permission
PermissionOf(op) == IF op = "list" THEN "read" ELSE op

\* C20 as claimed: when the authorization check denies an operation, the create,
\* list, read or update call fails with HTTPForbidden and no store operation is called.
C20_DenialIsForbidden ==
    (/\ last.op \in {"create", "list", "read", "update"}
     /\ PermissionOf(last.op) \in policy) =>
        /\ last.error.kind = "HTTPForbidden"
        /\ last.calls = <<>>

\* C21: scroll termination.  Every next_cursor a list call returns is greater, in id
\* order, than the after_id of that call and is the id of a stored document; a scroll
\* that follows next_cursor over a collection that is not written has made at most
\* as many calls as there are documents while has_more is true, and it reaches a page
\* with has_more = false.
C21_ScrollTerminates ==
    /\ [](/\ (/\ last.op = "list"
              /\ last.error = NoError
              /\ last.after_id # None
              /\ last.page.has_more) =>
                 ObjectId(last.page.next_cursor) > ObjectId(last.after_id)
          /\ scroll.phase = "open" =>
                 /\ scroll.cursor # None
                 /\ ObjectId(scroll.cursor) \in DOMAIN Platforms
                 /\ scroll.after_id # None =>
                        ObjectId(scroll.cursor) > ObjectId(scroll.after_id)
                 /\ scroll.pages < Cardinality(DOMAIN Platforms)
          /\ scroll.phase = "done" => scroll.pages <= Cardinality(DOMAIN Platforms) + 1)
    /\ (scroll.phase = "open") ~> (scroll.phase = "done")

\* a scroll of pages of one row, in descending order of name, ended after three calls
C21_Witness ==
    /\ scroll.phase = "done"
    /\ scroll.pages = 3
    /\ scroll.limit = 1
    /\ scroll.sort_by = "name"
    /\ scroll.order = "desc"
    /\ scroll.after_id # None

\* d comes strictly before e: by the sort field in the requested order, and by id
\* ascending when their sort-field values are equal
Precedes(d, e, sort_by, order) ==
    \/ (order = "asc" /\ FieldCompare(d, e, sort_by) < 0)
    \/ (order = "desc" /\ FieldCompare(d, e, sort_by) > 0)
    \/ (FieldCompare(d, e, sort_by) = 0 /\ d["_id"] < e["_id"])

\* C22: deterministic stable order.  The items of a successful list call are ordered
\* by the sort field in the requested order, items with equal sort-field values by id
\* ascending; the order is total on the selected documents, and the i-th item is the
\* selected document that exactly i - 1 selected documents precede, so the page
\* (items, has_more, next_cursor) is determined by the parameters and the collection.
C22_StableOrder ==
    (last.op = "list" /\ last.error = NoError) =>
        LET sel == Selected(last.name, last.after_id)
            items == last.page.items
        IN  /\ \A i, j \in 1..Len(items) :
                  i < j =>
                     LET c == FieldCompare(items[i], items[j], last.sort_by)
                     IN  /\ last.order = "asc" => c <= 0
                         /\ last.order = "desc" => c >= 0
                         /\ c = 0 => items[i]["_id"] < items[j]["_id"]
            /\ \A a, b \in sel :
                  a # b => (Precedes(Platforms[a], Platforms[b], last.sort_by, last.order)
                            # Precedes(Platforms[b], Platforms[a], last.sort_by, last.order))
            /\ \A i \in 1..Len(items) :
                  /\ items[i]["_id"] \in sel
                  /\ Cardinality({a \in sel : Precedes(Platforms[a], items[i],
                                                       last.sort_by, last.order)}) = i - 1
            /\ last.page.has_more = (Cardinality(sel) > last.limit)
            /\ last.page.next_cursor = (IF Cardinality(sel) > last.limit
                                        THEN ToStr(items[Len(items)]["_id"]) ELSE None)

\* a descending list by status, which all documents share, returned two documents of
\* different names in ascending id order
C22_Witness ==
    /\ last.op = "list"
    /\ last.error = NoError
    /\ last.sort_by = "status"
    /\ last.order = "desc"
    /\ Len(last.page.items) >= 2
    /\ last.page.items[1]["_id"] < last.page.items[2]["_id"]
    /\ last.page.items[1]["name"] # last.page.items[2]["name"]

\* the data operations among the store calls of a service operation (obtaining the
\* collection handle is not one)
DataCalls(calls) == SelectSeq(calls, LAMBDA c : c # "get_collection")

\* C23: no retries.  A create, read, update or list call issues at most one data
\* operation against the store, the one of its kind; when the store faults on it,
\* no further data operation follows, the call fails with one InternalError, and the
\* store is left as it was.
C23_NoRetries ==
    [][(last.op = "none" /\ last'.op \in {"create", "read", "update", "list"}) =>
          LET ops == DataCalls(last'.calls)
          IN  /\ Len(ops) <= 1
              /\ ops # <<>> =>
                    ops[1] = (CASE last'.op = "create" -> "create_document"
                                [] last'.op = "read" -> "get_document"
                                [] last'.op = "update" -> "update_document"
                                [] last'.op = "list" -> "find")
              /\ (last'.fault /\ ops # <<>>) =>
                    /\ last'.error.kind = "HTTPInternalServerError"
                    /\ mongo' = mongo
              /\ (~last'.fault /\ ops # <<>>) =>
                    last'.error.kind \in {"none", "HTTPNotFound"}]_vars

\* an update of an existing document met a store fault: one update_document call,
\* one InternalError
C23_Witness ==
    /\ last.op = "update"
    /\ last.fault
    /\ last.calls = <<"update_document">>
    /\ last.error.kind = "HTTPInternalServerError"
    /\ ObjectId(last.id) \in DOMAIN Platforms

\* C24: error closure.  Whatever policy is plugged into the permission check and
\* whether or not the store faults, a create ends in success, HTTPForbidden or
\* HTTPInternalServerError; a list in success, HTTPBadRequest or
\* HTTPInternalServerError; a read in success, HTTPNotFound or
\* HTTPInternalServerError; an update in success, HTTPForbidden, HTTPNotFound or
\* HTTPInternalServerError.  The store's own exception never reaches the caller: a
\* call on which the store faulted ends in HTTPInternalServerError.
C24_ErrorClosure ==
    /\ last.op = "create" =>
          last.error.kind \in {"none", "HTTPForbidden", "HTTPInternalServerError"}
    /\ last.op = "list" =>
          last.error.kind \in {"none", "HTTPBadRequest", "HTTPInternalServerError"}
    /\ last.op = "read" =>
          last.error.kind \in {"none", "HTTPNotFound", "HTTPInternalServerError"}
    /\ last.op = "update" =>
          last.error.kind \in {"none", "HTTPForbidden", "HTTPNotFound",
                               "HTTPInternalServerError"}
    /\ (/\ last.op \in {"create", "list", "read", "update"}
        /\ last.fault
        /\ DataCalls(last.calls) # <<>>) =>
           last.error.kind = "HTTPInternalServerError"

\* a create was denied by the plugged-in policy and ended in HTTPForbidden
C24_Witness ==
    /\ last.op = "create"
    /\ "create" \in policy
    /\ last.error.kind = "HTTPForbidden"
    /\ last.calls = <<>>

\* the POST whose response `last` holds failed at its read-back, having created x
PostFailedAfterCreate(x) ==
    /\ last.op = "post"
    /\ last.error # NoError
    /\ ObjectId(last.id) = x

\* C25: the POST route is two store steps, create_document and then get_document of
\* the returned id.  It responds 201 exactly when both succeed; when the read-back
\* fails after a successful create the response is an error status (500 for a store
\* fault, 404 for not found) and the created document stays stored: from then on it
\* is in the collection, a read of its id that the store answers returns it, and an
\* unfiltered first page holds it or has_more is true.
C25_PostNotAtomic ==
    /\ [](last.op = "post" =>
             /\ last.calls = <<"create_document", "get_document">>
             /\ (last.status = 201) = (last.error = NoError)
             /\ last.fault => (last.status = 500 /\ last.error.kind = "HTTPInternalServerError")
             /\ last.error # NoError =>
                   /\ last.status \in {404, 500}
                   /\ ObjectId(last.id) \in DOMAIN Platforms
                   /\ Platforms[ObjectId(last.id)]["created"] = last.breadcrumb)
    /\ \A x \in 1..MaxDocs :
          [](PostFailedAfterCreate(x) =>
               [](/\ x \in DOMAIN Platforms
                  /\ (last.op = "read" /\ last.id = ToStr(x) /\ ~last.fault) =>
                        (last.error = NoError /\ last.value = Platforms[x])
                  /\ (/\ last.op = "list"
                      /\ last.error = NoError
                      /\ last.name = None
                      /\ last.after_id = None) =>
                        (\/ x \in SeqRange(ItemIds(last.page.items))
                         \/ last.page.has_more)))

\* a POST created the second document, its read-back met a store fault, and the
\* response is 500 while the document is stored
C25_Witness ==
    /\ last.op = "post"
    /\ last.fault
    /\ last.status = 500
    /\ last.id = ToStr(2)
    /\ 2 \in DOMAIN Platforms
    /\ Platforms[2]["created"] = last.breadcrumb

\* C26: the fields an accepted update sets on the addressed document are exactly
\* the payload's keys, with the payload's values, plus saved = the request's
\* breadcrumb, every other field staying as it was; so an update with an empty
\* payload succeeds and changes only saved.  Whatever its outcome, update leaves the
\* caller's payload dictionary as it was, while create leaves its payload without
\* _id and with created and saved set to the breadcrumb.
C26_UpdateFieldSet ==
    [][/\ (last.op = "none" /\ last'.op = "update") =>
            /\ last'.after = last'.data
            /\ (/\ ~CarriesRestricted(last'.data)
                /\ ~last'.fault
                /\ ObjectId(last'.id) \in DOMAIN Platforms) =>
                   LET old == Platforms[ObjectId(last'.id)]
                       new == Platforms'[ObjectId(last'.id)]
                   IN  /\ last'.error = NoError
                       /\ DOMAIN new = DOMAIN old \cup DOMAIN last'.data
                       /\ \A k \in DOMAIN new :
                             new[k] = (IF k = "saved" THEN last'.breadcrumb
                                       ELSE IF k \in DOMAIN last'.data THEN last'.data[k]
                                       ELSE old[k])
       /\ (last.op = "none" /\ last'.op = "create" /\ last'.calls # <<>>) =>
            /\ DOMAIN last'.after = ((DOMAIN last'.data) \ {"_id"}) \cup {"created", "saved"}
            /\ last'.after["created"] = last'.breadcrumb
            /\ last'.after["saved"] = last'.breadcrumb
            /\ \A k \in (DOMAIN last'.data) \ {"_id", "created", "saved"} :
                  last'.after[k] = last'.data[k]]_vars

\* an update with an empty payload changed saved, and nothing else, on a document
\* that has a name, and left the payload empty
C26_Witness ==
    /\ last.op = "update"
    /\ last.data = EmptyMap
    /\ last.after = EmptyMap
    /\ last.error = NoError
    /\ LET doc == Platforms[ObjectId(last.id)]
       IN  /\ Has(doc, "name")
           /\ doc["saved"] = last.breadcrumb
           /\ doc["saved"] # doc["created"]

\* the documents of the Platform collection that a step changed or added
Changed ==
    {x \in DOMAIN Platforms' : x \notin DOMAIN Platforms \/ Platforms'[x] # Platforms[x]}

\* C27: a list or read request (the read-back of a POST included), a request
\* refused for its credential, and every request that ends in HTTPBadRequest,
\* HTTPForbidden or HTTPNotFound leaves every document of every collection as it
\* was; a create or update of a platform leaves every other collection as it was
\* and removes no document, a create leaves the stored platforms as they were, and
\* an update changes no document but the addressed one.
C27_Frame ==
    [][/\ DOMAIN mongo' = DOMAIN mongo
       /\ last' # last =>
            /\ \A c \in DOMAIN mongo \ {PLATFORM_COLLECTION_NAME} : mongo'[c] = mongo[c]
            /\ DOMAIN Platforms \subseteq DOMAIN Platforms'
            /\ last'.op \in {"read", "list", "refused", "post", "none"} => mongo' = mongo
            /\ (/\ last'.op \in {"create", "update"}
                /\ last.op = "none"
                /\ last'.error.kind \in {"HTTPBadRequest", "HTTPForbidden", "HTTPNotFound"}) =>
                   mongo' = mongo
            /\ (last.op = "none" /\ last'.op = "create") =>
                   \A x \in DOMAIN Platforms : Platforms'[x] = Platforms[x]
            /\ (last.op = "none" /\ last'.op = "update") =>
                   Changed \subseteq {ObjectId(last'.id)} \cap DOMAIN Platforms
       /\ (last.op = "create" /\ last'.op = "create") =>
            /\ \A c \in DOMAIN mongo \ {PLATFORM_COLLECTION_NAME} : mongo'[c] = mongo[c]
            /\ Cardinality(Changed) <= 1
            /\ Changed \subseteq DOMAIN Platforms]_vars

\* a read answered with a stored document that a second stored document sits next
\* to, under a policy that denies update
C27_Witness ==
    /\ last.op = "read"
    /\ last.error = NoError
    /\ "update" \in policy
    /\ Cardinality(DOMAIN Platforms) = 2
    /\ last.value = Platforms[ObjectId(last.id)]

====
